---- MODULE Spec2Model ----
(***************************************************************************)
(* Voice-Dataset-Collector.                                                *)
(*                                                                         *)
(* Two programs are modelled:                                              *)
(*   - src/app.py: the submit handler on_submit, process_and_upload and    *)
(*     the retrying safe_upload, writing an audio blob and a JSON sidecar  *)
(*     per record to the dataset repository (the "store");                 *)
(*   - src/casting.py: process_dataset, the batch pass that downloads the  *)
(*     audio files, rewrites the audio column, casts it and pushes every   *)
(*     split back.                                                         *)
(*                                                                         *)
(* The store, the dataset library and the file system are collaborators:   *)
(* each call into them is one step of the model whose outcome (success or  *)
(* a raised exception) is chosen nondeterministically.                     *)
(***************************************************************************)
EXTENDS Integers, Sequences, FiniteSets, TLC

(***************************************************************************)
(* Bounds of the model.                                                    *)
(***************************************************************************)
\* number of distinct values uuid.uuid4() can return in one run of the model
MaxIds == 2
\* longest transcript typed into the form
MaxLen == 1
\* number of distinct audio blobs the loaded dataset can refer to
MaxBlobs == 2
\* largest number of rows of the loaded dataset, all splits together
MaxRows == 2

(***************************************************************************)
(* Program constants.                                                      *)
(***************************************************************************)
\* for attempt in range(3)
RetryRange == 3
\* if attempt == 2: raise
LastAttempt == 2

\* HF_REPO_SUBFOLDER, default "data"
APP_REPO_SUBFOLDER == "data"

(***************************************************************************)
(* src/app.py: values.                                                     *)
(***************************************************************************)
Ids == 1..MaxIds
NoId == 0

Whitespace == {" "}
Chars == {" ", "h"}
Transcripts == UNION {[1..n -> Chars] : n \in 0..MaxLen}
None == "None"
AudioPaths == {None, "rec.wav"}
SpeakerIds == {"", "spk1"}
Languages == {"", "en"}

Requests == [audio_path : AudioPaths, transcript : Transcripts,
             speaker_id : SpeakerIds, language : Languages]
NoRequest == [audio_path |-> None, transcript |-> <<>>,
              speaker_id |-> "", language |-> ""]

\* str.strip(): leading and trailing whitespace removed
RECURSIVE LStrip(_)
LStrip(t) ==
    IF t = <<>> THEN t
    ELSE IF Head(t) \in Whitespace THEN LStrip(Tail(t)) ELSE t

RECURSIVE RStrip(_)
RStrip(t) ==
    IF t = <<>> THEN t
    ELSE IF t[Len(t)] \in Whitespace THEN RStrip(SubSeq(t, 1, Len(t) - 1)) ELSE t

Strip(t) == RStrip(LStrip(t))

\* the transcript is tested without strip()
InvalidNoStrip(r) == r.audio_path = None \/ r.transcript = <<>>

\* on_submit: audio_path is None or not transcript.strip()
Invalid(r) == r.audio_path = None \/ Strip(r.transcript) = <<>>

\* the entry id is not part of the file name
AudioFilenameFixed(id) == <<APP_REPO_SUBFOLDER, 1, "flac">>

\* audio_filename = f"{REPO_SUBFOLDER}/{entry_id}.flac"
AudioFilename(id) == <<APP_REPO_SUBFOLDER, id, "flac">>

\* json_filename = f"{REPO_SUBFOLDER}/{entry_id}.json"
JsonFilename(id) == <<APP_REPO_SUBFOLDER, id, "json">>

\* buf: the FLAC encoding of the recording read from audio_path
AudioBody(r) == [kind |-> "flac", src |-> r.audio_path]

\* meta, serialised by json.dumps (the timestamp is left out: no clock is modelled)
MetaBody(id, r) ==
    [kind |-> "json", id |-> id, audio |-> AudioFilename(id),
     transcript |-> r.transcript, speaker_id |-> r.speaker_id,
     language |-> r.language]

VALIDATION_MSG == [kind |-> "validation", id |-> NoId]
Uploaded(id) == [kind |-> "uploaded", id |-> id]
NoMsg == [kind |-> "none", id |-> NoId]

NoLog == [audio |-> <<>>, json |-> <<>>]
NoRes == [audio |-> "none", json |-> "none"]

\* the last failure is swallowed instead of raised
SafeUploadSwallow(att, ok) ==
    IF ok THEN "return"
    ELSE IF att + 1 < RetryRange THEN "retry" ELSE "return_none"

\* one retry too many
SafeUploadExtra(att, ok) ==
    IF ok THEN "return"
    ELSE IF att = LastAttempt + 1 THEN "raise" ELSE "retry"

\* safe_upload: what one pass through the loop body does, at loop index att,
\* when hf.upload_file returns (ok) or raises; "return_none" is the loop
\* running out, after which the function returns None
SafeUpload(att, ok) ==
    IF ok THEN "return"
    ELSE IF att = LastAttempt THEN "raise"
    ELSE IF att + 1 < RetryRange THEN "retry"
    ELSE "return_none"

(***************************************************************************)
(* src/casting.py: values.                                                 *)
(***************************************************************************)
REPO_SUBFOLDER == "tmp_audio_root"
REPO_LOCAL_STORAGE == "tmp_audio_root/Voice-so-data"
LOCAL_CWD_DATA_DIR == "data"
\* os.getcwd()
CWD == "/cwd"

\* blob b stands for the repository file "data/<b>.flac"
Blobs == 1..MaxBlobs

\* the value of row['audio'] as loaded: a path relative to the repository
RepoPath(b) == [root |-> "", rel |-> b]
\* os.path.join(REPO_LOCAL_STORAGE, audio_filename_in_repo.replace('/', os.sep))
LocalCachePath(p) == [root |-> REPO_LOCAL_STORAGE, rel |-> p.rel]
\* os.path.join(os.getcwd(), audio_filename_in_repo.replace('/', os.sep))
ExpectedCwdPath(p) == IF p.root = "" THEN [root |-> CWD, rel |-> p.rel] ELSE p
\* os.path.abspath
IsAbs(p) == p.root = CWD

\* dataset.keys(), in order
SplitNames == <<"train", "test">>
SplitSet == {SplitNames[i] : i \in 1..Len(SplitNames)}

InjSeqs(S, n) ==
    UNION {{q \in [1..m -> S] : \A i, j \in 1..m : q[i] = q[j] => i = j} : m \in 0..n}

\* the datasets load_dataset can return: in a split every record has its own
\* audio file; a file may occur in more than one split
Datasets ==
    {d \in [SplitSet -> InjSeqs({RepoPath(b) : b \in Blobs}, MaxRows)] :
        Len(d["train"]) + Len(d["test"]) <= MaxRows}
NoDataset == [s \in SplitSet |-> <<>>]

\* the rows in the order the two loops visit them: <<split, index>>
RECURSIVE RowsFrom(_, _)
RowsFrom(d, si) ==
    IF si > Len(SplitNames) THEN <<>>
    ELSE [i \in 1..Len(d[SplitNames[si]]) |-> <<SplitNames[si], i>>]
         \o RowsFrom(d, si + 1)
Rows(d) == RowsFrom(d, 1)
RowSet(d) == {Rows(d)[i] : i \in 1..Len(Rows(d))}

\* the split is not part of the key
KeyNoSplit(split, p) == <<"", p>>

\* key = f"{split}/{audio_filename_in_repo}"
Key(split, p) == <<split, p>>

\* if key in downloaded_paths
ShouldRewrite(key, dp) == key \in DOMAIN dp

\* the path is rewritten only when the copy succeeded
RewriteOnlyCopied(copied) == copied

\* the assignment of line 117 follows the try/except of the copy: it runs
\* whether or not the copy raised
RewriteAfterCopy(copied) == TRUE

\* the try/except wraps each push: a failed push is skipped
PushNextIsolated(ok, i) == IF i < Len(SplitNames) THEN "push" ELSE "cleanup"

\* the try/except wraps the whole push loop: the first failure leaves it
PushNext(ok, i) ==
    IF ~ok THEN "cleanup"
    ELSE IF i < Len(SplitNames) THEN "push" ELSE "cleanup"

(***************************************************************************)
(* State.                                                                  *)
(***************************************************************************)
VARIABLES
    \* src/app.py
    store,      \* the dataset repository: path -> body
    issued,     \* the ids uuid4 has returned
    pc,         \* where the running on_submit call is
    req,        \* the arguments of the call
    entry_id,   \* entry_id of process_and_upload
    attempt,    \* the loop index of the running safe_upload
    log,        \* the outcomes of hf.upload_file, per upload of the call
    upres,      \* how each safe_upload call of the call ended
    msg,        \* the status string on_submit returned
    \* src/casting.py
    cpc,        \* where process_dataset is
    cend,       \* how process_dataset ended
    k,          \* the index of the running loop
    dirs,       \* which of tmp_audio_root and data exist on disk
    files,      \* the audio files on disk
    dataset,    \* the dataset as loaded: split -> audio column
    updated_dataset,
    downloaded_paths,
    published,  \* the splits pushed to the repository
    dlFailed,   \* the rows whose hf_hub_download raised
    copyFailed, \* the rows whose copy raised
    dlCalls,    \* the rows for which hf_hub_download was called
    pushTried,  \* the splits whose push_to_hub was called
    pushFailed  \* the splits whose push_to_hub raised

appVars == <<store, issued, pc, req, entry_id, attempt, log, upres, msg>>

castVars == <<cpc, cend, k, dirs, files, dataset, updated_dataset,
              downloaded_paths, published, dlFailed, copyFailed, dlCalls,
              pushTried, pushFailed>>

vars == <<appVars, castVars>>

EmptyMap == [x \in {} |-> 0]

\* a mapping with one entry set (dict assignment, upload to a path)
Put(f, x, v) == [y \in DOMAIN f \cup {x} |-> IF y = x THEN v ELSE f[y]]

(***************************************************************************)
(* src/app.py: operations.                                                 *)
(***************************************************************************)
InitApp ==
    /\ store = EmptyMap
    /\ issued = {}
    /\ pc = "idle"
    /\ req = NoRequest
    /\ entry_id = NoId
    /\ attempt = 0
    /\ log = NoLog
    /\ upres = NoRes
    /\ msg = NoMsg

\* uuid.uuid4(): a value no earlier call returned
Uuid4 == Ids \ issued

\* on_submit up to the first call of hf.upload_file
OnSubmit(r) ==
    /\ pc = "idle"
    /\ req' = r
    /\ IF Invalid(r)
       THEN /\ pc' = "returned"
            /\ msg' = VALIDATION_MSG
            /\ UNCHANGED <<store, issued, entry_id, attempt, log, upres>>
       ELSE /\ \E id \in Uuid4 :
                  /\ entry_id' = id
                  /\ issued' = issued \cup {id}
            /\ pc' = "audio"
            /\ attempt' = 0
            /\ UNCHANGED <<store, log, upres, msg>>
    /\ UNCHANGED castVars

\* one call of hf.upload_file inside safe_upload(buf, audio_filename), and
\* what follows it up to the next call
UploadAudio(ok) ==
    /\ pc = "audio"
    /\ log' = [log EXCEPT !.audio = Append(@, ok)]
    /\ store' = IF ok THEN Put(store, AudioFilename(entry_id), AudioBody(req))
                ELSE store
    /\ LET o == SafeUpload(attempt, ok) IN
         CASE o = "retry" ->
                /\ attempt' = attempt + 1
                /\ UNCHANGED <<pc, upres, msg>>
           [] o = "raise" ->
                /\ pc' = "raised"
                /\ upres' = [upres EXCEPT !.audio = "raised"]
                /\ UNCHANGED <<attempt, msg>>
           [] OTHER ->
                /\ pc' = "json"
                /\ upres' = [upres EXCEPT !.audio = o]
                /\ attempt' = 0
                /\ UNCHANGED msg
    /\ UNCHANGED <<issued, req, entry_id>>
    /\ UNCHANGED castVars

\* one call of hf.upload_file inside safe_upload(meta_bytes, json_filename),
\* and what follows it up to the next call or the return
UploadJson(ok) ==
    /\ pc = "json"
    /\ log' = [log EXCEPT !.json = Append(@, ok)]
    /\ store' = IF ok THEN Put(store, JsonFilename(entry_id), MetaBody(entry_id, req))
                ELSE store
    /\ LET o == SafeUpload(attempt, ok) IN
         CASE o = "retry" ->
                /\ attempt' = attempt + 1
                /\ UNCHANGED <<pc, upres, msg>>
           [] o = "raise" ->
                /\ pc' = "raised"
                /\ upres' = [upres EXCEPT !.json = "raised"]
                /\ UNCHANGED <<attempt, msg>>
           [] OTHER ->
                /\ pc' = "returned"
                /\ upres' = [upres EXCEPT !.json = o]
                /\ msg' = Uploaded(entry_id)
                /\ UNCHANGED attempt
    /\ UNCHANGED <<issued, req, entry_id>>
    /\ UNCHANGED castVars

\* the call of on_submit is over (it returned msg, or its exception left it):
\* the form is ready for the next submission
Finish ==
    /\ pc \in {"returned", "raised"}
    /\ pc' = "idle"
    /\ req' = NoRequest
    /\ entry_id' = NoId
    /\ attempt' = 0
    /\ log' = NoLog
    /\ upres' = NoRes
    /\ msg' = NoMsg
    /\ UNCHANGED <<store, issued>>
    /\ UNCHANGED castVars

(***************************************************************************)
(* src/casting.py: operations.                                             *)
(***************************************************************************)
InitCast ==
    /\ cpc = "start"
    /\ cend = "none"
    /\ k = 1
    /\ dirs = {}
    /\ files = {}
    /\ dataset = NoDataset
    /\ updated_dataset = NoDataset
    /\ downloaded_paths = EmptyMap
    /\ published = {}
    /\ dlFailed = {}
    /\ copyFailed = {}
    /\ dlCalls = {}
    /\ pushTried = {}
    /\ pushFailed = {}

\* shutil.rmtree(d, ignore_errors=True)
RmtreeDirs(ds, d) == ds \ {d}
RmtreeFiles(fs, d) ==
    IF d = REPO_SUBFOLDER THEN {f \in fs : f.root # REPO_LOCAL_STORAGE}
    ELSE IF d = LOCAL_CWD_DATA_DIR THEN {f \in fs : f.root # CWD}
    ELSE fs

\* process_dataset from its start to the first loop: the two makedirs and
\* load_dataset, which returns d, raises RepositoryNotFoundError or raises
\* another exception
Load(outcome, d) ==
    /\ cpc = "start"
    /\ CASE outcome = "ok" ->
              /\ dirs' = dirs \cup {REPO_SUBFOLDER, LOCAL_CWD_DATA_DIR}
              /\ dataset' = d
              /\ updated_dataset' = d
              /\ cpc' = IF Len(Rows(d)) > 0 THEN "download" ELSE "cast"
              /\ UNCHANGED <<cend, files>>
         [] outcome = "not_found" ->
              /\ d = NoDataset
              /\ dirs' = RmtreeDirs(dirs \cup {REPO_SUBFOLDER, LOCAL_CWD_DATA_DIR},
                                    REPO_SUBFOLDER)
              /\ files' = RmtreeFiles(files, REPO_SUBFOLDER)
              /\ cpc' = "ended"
              /\ cend' = "load_not_found"
              /\ UNCHANGED <<dataset, updated_dataset>>
         [] OTHER ->
              /\ d = NoDataset
              /\ dirs' = dirs \cup {REPO_SUBFOLDER, LOCAL_CWD_DATA_DIR}
              /\ cpc' = "ended"
              /\ cend' = "load_error"
              /\ UNCHANGED <<files, dataset, updated_dataset>>
    /\ UNCHANGED <<k, downloaded_paths, published, dlFailed, copyFailed,
                   dlCalls, pushTried, pushFailed>>
    /\ UNCHANGED appVars

\* one pass through the body of the first loop (lines 51-83)
Download(ok) ==
    /\ cpc = "download"
    /\ LET row == Rows(dataset)[k]
           split == row[1]
           audio_filename_in_repo == dataset[split][row[2]]
           local_cache_path == LocalCachePath(audio_filename_in_repo)
           key == Key(split, audio_filename_in_repo)
       IN /\ dirs' = dirs \cup {REPO_SUBFOLDER}
          /\ IF local_cache_path \notin files
             THEN /\ dlCalls' = dlCalls \cup {row}
                  /\ IF ok
                     THEN /\ files' = files \cup {local_cache_path}
                          /\ downloaded_paths' =
                                Put(downloaded_paths, key, local_cache_path)
                          /\ UNCHANGED dlFailed
                     ELSE /\ dlFailed' = dlFailed \cup {row}
                          /\ UNCHANGED <<files, downloaded_paths>>
             ELSE /\ ok
                  /\ downloaded_paths' = Put(downloaded_paths, key, local_cache_path)
                  /\ UNCHANGED <<files, dlFailed, dlCalls>>
    /\ IF k < Len(Rows(dataset))
       THEN k' = k + 1 /\ UNCHANGED cpc
       ELSE k' = 1 /\ cpc' = "rewrite"
    /\ UNCHANGED <<cend, dataset, updated_dataset, published, copyFailed,
                   pushTried, pushFailed>>
    /\ UNCHANGED appVars

\* one pass through the body of the second loop (lines 94-120)
Rewrite(copyOk) ==
    /\ cpc = "rewrite"
    /\ LET row == Rows(updated_dataset)[k]
           split == row[1]
           audio_filename_in_repo == updated_dataset[split][row[2]]
           key == Key(split, audio_filename_in_repo)
           expected_cwd_path == ExpectedCwdPath(audio_filename_in_repo)
       IN IF ShouldRewrite(key, downloaded_paths)
          THEN LET copied == copyOk /\ downloaded_paths[key] \in files
               IN /\ IF copied
                     THEN /\ files' = files \cup {expected_cwd_path}
                          /\ dirs' = dirs \cup {LOCAL_CWD_DATA_DIR}
                          /\ UNCHANGED copyFailed
                     ELSE /\ copyFailed' = copyFailed \cup {row}
                          /\ UNCHANGED <<files, dirs>>
                  /\ updated_dataset' =
                        IF RewriteAfterCopy(copied)
                        THEN [updated_dataset EXCEPT ![split][row[2]] =
                                                        expected_cwd_path]
                        ELSE updated_dataset
          ELSE /\ copyOk
               /\ UNCHANGED <<files, dirs, copyFailed, updated_dataset>>
    /\ IF k < Len(Rows(updated_dataset))
       THEN k' = k + 1 /\ UNCHANGED cpc
       ELSE k' = 1 /\ cpc' = "cast"
    /\ UNCHANGED <<cend, dataset, downloaded_paths, published, dlFailed,
                   dlCalls, pushTried, pushFailed>>
    /\ UNCHANGED appVars

\* cast_column for one split (lines 125-126); its exception is not caught
Cast(ok) ==
    /\ cpc = "cast"
    /\ IF ok
       THEN /\ IF k < Len(SplitNames)
               THEN k' = k + 1 /\ UNCHANGED cpc
               ELSE k' = 1 /\ cpc' = "push"
            /\ UNCHANGED cend
       ELSE /\ cpc' = "ended"
            /\ cend' = "cast_error"
            /\ UNCHANGED k
    /\ UNCHANGED <<dirs, files, dataset, updated_dataset, downloaded_paths,
                   published, dlFailed, copyFailed, dlCalls, pushTried,
                   pushFailed>>
    /\ UNCHANGED appVars

\* push_to_hub for one split (lines 130-143)
Push(ok) ==
    /\ cpc = "push"
    /\ pushTried' = pushTried \cup {SplitNames[k]}
    /\ IF ok
       THEN published' = published \cup {SplitNames[k]} /\ UNCHANGED pushFailed
       ELSE pushFailed' = pushFailed \cup {SplitNames[k]} /\ UNCHANGED published
    /\ cpc' = PushNext(ok, k)
    /\ k' = IF PushNext(ok, k) = "push" THEN k + 1 ELSE 1
    /\ UNCHANGED <<cend, dirs, files, dataset, updated_dataset, downloaded_paths,
                   dlFailed, copyFailed, dlCalls>>
    /\ UNCHANGED appVars

\* the two rmtree calls that end process_dataset (lines 147-150)
Cleanup ==
    /\ cpc = "cleanup"
    /\ dirs' = RmtreeDirs(RmtreeDirs(dirs, REPO_SUBFOLDER), LOCAL_CWD_DATA_DIR)
    /\ files' = RmtreeFiles(RmtreeFiles(files, REPO_SUBFOLDER), LOCAL_CWD_DATA_DIR)
    /\ cpc' = "ended"
    /\ cend' = "returned"
    /\ UNCHANGED <<k, dataset, updated_dataset, downloaded_paths, published,
                   dlFailed, copyFailed, dlCalls, pushTried, pushFailed>>
    /\ UNCHANGED appVars

\* the script is run again: a new process, the disk and the repository as
\* the last run left them
Rerun ==
    /\ cpc = "ended"
    /\ cpc' = "start"
    /\ cend' = "none"
    /\ k' = 1
    /\ dataset' = NoDataset
    /\ updated_dataset' = NoDataset
    /\ downloaded_paths' = EmptyMap
    /\ dlFailed' = {}
    /\ copyFailed' = {}
    /\ dlCalls' = {}
    /\ pushTried' = {}
    /\ pushFailed' = {}
    /\ UNCHANGED <<dirs, files, published>>
    /\ UNCHANGED appVars

(***************************************************************************)
(* Specifications.                                                         *)
(***************************************************************************)
Init == InitApp /\ InitCast

NextApp ==
    \/ \E r \in Requests : OnSubmit(r)
    \/ \E ok \in BOOLEAN : UploadAudio(ok)
    \/ \E ok \in BOOLEAN : UploadJson(ok)
    \/ Finish

NextCast ==
    \/ \E o \in {"ok", "not_found", "error"}, d \in Datasets : Load(o, d)
    \/ \E ok \in BOOLEAN : Download(ok)
    \/ \E ok \in BOOLEAN : Rewrite(ok)
    \/ \E ok \in BOOLEAN : Cast(ok)
    \/ \E ok \in BOOLEAN : Push(ok)
    \/ Cleanup
    \/ Rerun

\* the submissions through the form
SpecApp == Init /\ [][NextApp]_vars

\* the runs of the batch script
SpecCast == Init /\ [][NextCast]_vars

(***************************************************************************)
(* Properties of src/app.py, under SpecApp.                                *)
(***************************************************************************)
AudioPathOf(id) == <<APP_REPO_SUBFOLDER, id, "flac">>
JsonPathOf(id) == <<APP_REPO_SUBFOLDER, id, "json">>

\* C1: every metadata JSON object of the store has its audio blob in the
\* store, at the path its 'audio' field names.
C1_SidecarHasAudio ==
    \A p \in DOMAIN store :
        store[p].kind = "json" =>
            /\ store[p].audio \in DOMAIN store
            /\ store[store[p].audio].kind = "flac"

\* a complete record is in the store beside an orphaned audio blob, left by
\* a submission whose JSON upload failed three times
C1_Witness ==
    /\ \E p \in DOMAIN store : store[p].kind = "json"
    /\ \E id \in Ids : /\ AudioPathOf(id) \in DOMAIN store
                       /\ JsonPathOf(id) \notin DOMAIN store
                       /\ id # entry_id

\* the attempts l of one safe_upload call and the way r it ended
RetryBudget(l, r) ==
    /\ Len(l) <= 3
    /\ \A i \in 1..(Len(l) - 1) : l[i] = FALSE
    /\ r \in {"none", "return", "raised"}
    /\ r = "return" <=> (l # <<>> /\ l[Len(l)] = TRUE)
    /\ r = "raised" <=> l = <<FALSE, FALSE, FALSE>>

\* C2: each of the two uploads makes at most 3 attempts; no attempt follows
\* a successful one; two failures and a success end in success after exactly
\* 3 attempts; three failures end, after exactly 3 attempts, in the error
\* leaving process_and_upload.
C2_RetryBudget ==
    /\ RetryBudget(log.audio, upres.audio)
    /\ RetryBudget(log.json, upres.json)
    /\ (upres.audio = "raised" \/ upres.json = "raised") <=> pc = "raised"
    /\ upres.audio = "raised" => log.json = <<>>

\* the audio upload succeeded at its third attempt and the JSON upload
\* failed three times
C2_Witness ==
    /\ log.audio = <<FALSE, FALSE, TRUE>>
    /\ upres.audio = "return"
    /\ log.json = <<FALSE, FALSE, FALSE>>
    /\ pc = "raised"

\* no audio, or a transcript that is empty or consists of whitespace
NoAudioOrBlank(r) ==
    \/ r.audio_path = None
    \/ \A i \in 1..Len(r.transcript) : r.transcript[i] \in Whitespace

\* C3: a submission without audio or with a blank transcript ends at once
\* with the validation message: no id is generated, no upload is attempted
\* and the store is unchanged.
C3_InvalidRejected ==
    /\ [][(pc = "idle" /\ pc' # "idle" /\ NoAudioOrBlank(req')) =>
            /\ pc' = "returned"
            /\ msg' = VALIDATION_MSG
            /\ store' = store
            /\ issued' = issued
            /\ entry_id' = NoId
            /\ log' = NoLog]_vars
    /\ [](msg = VALIDATION_MSG => pc = "returned" /\ log = NoLog /\ entry_id = NoId)

\* a whitespace-only transcript was rejected, with a recording present and
\* a store that holds earlier records
C3_Witness ==
    /\ pc = "returned"
    /\ msg = VALIDATION_MSG
    /\ req.audio_path # None
    /\ req.transcript = <<" ">>
    /\ store # EmptyMap

\* C4: a successful submission got an id no earlier submission had, under
\* which no object was in the store; the store then holds exactly the two
\* objects <subfolder>/<id>.flac and <subfolder>/<id>.json of that id, the
\* JSON naming the id and the audio path; no step replaces or removes an
\* object, and a step adds objects of the running submission's id only.
C4_FreshPair ==
    /\ []((pc = "returned" /\ msg.kind = "uploaded") =>
            /\ msg.id = entry_id
            /\ msg.id \in issued
            /\ {p \in DOMAIN store : p[2] = msg.id}
                  = {AudioPathOf(msg.id), JsonPathOf(msg.id)}
            /\ store[AudioPathOf(msg.id)].kind = "flac"
            /\ store[JsonPathOf(msg.id)].kind = "json"
            /\ store[JsonPathOf(msg.id)].id = msg.id
            /\ store[JsonPathOf(msg.id)].audio = AudioPathOf(msg.id))
    /\ [][(pc = "idle" /\ pc' = "audio") =>
            /\ entry_id' \notin issued
            /\ \A p \in DOMAIN store : p[2] # entry_id']_vars
    /\ [][/\ \A p \in DOMAIN store : p \in DOMAIN store' /\ store'[p] = store[p]
          /\ \A p \in DOMAIN store' \ DOMAIN store : p[2] = entry_id]_vars

\* the second of two identical submissions succeeded: two records with
\* different ids and the same contents
C4_Witness ==
    /\ pc = "returned"
    /\ msg = Uploaded(2)
    /\ JsonPathOf(1) \in DOMAIN store
    /\ AudioPathOf(1) \in DOMAIN store
    /\ store[JsonPathOf(1)].transcript = store[JsonPathOf(2)].transcript
    /\ store[JsonPathOf(1)].speaker_id = store[JsonPathOf(2)].speaker_id
    /\ store[JsonPathOf(1)].language = store[JsonPathOf(2)].language
    /\ store[AudioPathOf(1)] = store[AudioPathOf(2)]

\* C8: when an upload of a valid submission has failed 3 times, on_submit
\* returns a status string that reports the upload failure, different from
\* the validation message and from 'Uploaded: <id>'.
C8_UploadFailureReported ==
    (upres.audio = "raised" \/ upres.json = "raised") =>
        /\ pc = "returned"
        /\ msg.kind \notin {"none", "validation", "uploaded"}

(***************************************************************************)
(* Properties of src/casting.py, under SpecCast.                           *)
(***************************************************************************)
NoWorkingDirs == REPO_SUBFOLDER \notin dirs /\ LOCAL_CWD_DATA_DIR \notin dirs

\* C5: a run that got past loading the dataset ends with neither
\* tmp_audio_root nor data on disk, whatever failed after the load.
C5_CleanupAlways ==
    (cpc = "ended" /\ cend \in {"returned", "cast_error"}) => NoWorkingDirs

\* C6 as stated: when the push of a split fails, the push of every remaining
\* split is still attempted, and the splits pushed stay pushed.
C6_PublishIsolated ==
    (cpc = "ended" /\ pushFailed # {}) =>
        /\ pushTried = SplitSet
        /\ pushTried \ pushFailed \subseteq published

\* C6 as amended: the first failed push ends the push loop; no later split
\* is pushed, the splits pushed before it stay pushed, and the run goes on
\* to the cleanup.
C6_PublishStopsAtFirstFailure ==
    /\ Cardinality(pushFailed) <= 1
    /\ pushTried \ pushFailed \subseteq published
    /\ \A i \in 1..Len(SplitNames) :
          SplitNames[i] \in pushFailed =>
              /\ cpc \in {"cleanup", "ended"}
              /\ cend \in {"none", "returned"}
              /\ \A j \in (i + 1)..Len(SplitNames) : SplitNames[j] \notin pushTried
              /\ \A j \in 1..(i - 1) : SplitNames[j] \in published

\* the push of the first split failed, the run ended after the cleanup and
\* the second split was never pushed
C6_Witness ==
    /\ cpc = "ended"
    /\ cend = "returned"
    /\ pushFailed = {SplitNames[1]}
    /\ SplitNames[2] \notin pushTried
    /\ Len(Rows(dataset)) > 0

OrigAudio(row) == dataset[row[1]][row[2]]
NewAudio(row) == updated_dataset[row[1]][row[2]]

C9_NotFoundCleansUp ==
    (cpc = "ended" /\ cend = "load_not_found") =>
        /\ dlCalls = {}
        /\ pushTried = {}
        /\ NoWorkingDirs

\* C10 as stated: at the cast step every rewritten audio field names an
\* existing file.
C10_RewrittenFileExists ==
    cpc = "cast" =>
        \A row \in RowSet(dataset) : IsAbs(NewAudio(row)) => NewAudio(row) \in files

\* C10 as amended: at the cast step an audio field is rewritten exactly when
\* its key has a download mapping, whether or not the copy raised; a
\* rewritten field whose copy did not raise names an existing file.
C10_RewrittenIffMapped ==
    cpc = "cast" =>
        \A row \in RowSet(dataset) :
            /\ IsAbs(NewAudio(row)) <=>
                  <<row[1], OrigAudio(row)>> \in DOMAIN downloaded_paths
            /\ (IsAbs(NewAudio(row)) /\ row \notin copyFailed) =>
                  NewAudio(row) \in files

\* at the cast step a record whose copy raised is rewritten to a path at
\* which there is no file
C10_Witness ==
    /\ cpc = "cast"
    /\ \E row \in RowSet(dataset) :
          /\ row \in copyFailed
          /\ IsAbs(NewAudio(row))
          /\ NewAudio(row) \notin files

====
